---- MODULE Spec2Model ----
(***************************************************************************)
(* Model of the recipeBook REST API: the recipe routes (query/filter,      *)
(* pagination, create, update, delete), the user profile route, the        *)
(* registration route and the token middleware, over a document store.     *)
(*                                                                         *)
(* JavaScript strings that the code splits, trims or case-folds are        *)
(* sequences of one-character strings.  Identities (user ids, recipe       *)
(* creators) are typed values [t, v] so that an ObjectId and a string with *)
(* the same hexadecimal text are different JavaScript values.              *)
(***************************************************************************)
EXTENDS Integers, Sequences, FiniteSets, TLC

(***************************************************************************)
(* Bounds of the model.                                                    *)
(***************************************************************************)
MaxRecipes == 2        \* recipes in the store under Spec
MaxClock == 3          \* writes (creations and updates) under Spec
MaxFilterRecipes == 2  \* recipes in the store under SpecFilter
MaxRawLen == 3         \* characters of a raw ingredients/tags parameter
MaxPageRecipes == 62   \* recipes in the store under SpecPage
MaxSaved == 2          \* entries of a user's savedRecipes
MaxSocialRecipes == 1  \* recipes in the store under SpecSocial

VARIABLES users, recipes, nextId, clock, res, pending

vars == <<users, recipes, nextId, clock, res, pending>>

(***************************************************************************)
(* JavaScript values.                                                      *)
(***************************************************************************)
\* undefined, where a string is expected (an absent query parameter)
Undefined == <<"undefined-value">>

\* undefined, where an array of strings is expected
UndefinedList == <<Undefined>>

\* a JavaScript string used as an identity
Str(s) == [t |-> "string", v |-> s]

\* a mongoose ObjectId
Oid(s) == [t |-> "ObjectId", v |-> s]

\* the identity of no document
NoId == [t |-> "undefined", v |-> <<>>]

\* x.toString() of an ObjectId or a string
IdToString(x) == Str(x.v)

\* x === y: an ObjectId is an object, equal only to itself by reference;
\* the document's ObjectId is never the same object as a request value
StrictEquals(x, y) == x.t = "string" /\ y.t = "string" /\ x.v = y.v

\* mongoose's cast of a value to the ObjectId of a schema path
CastObjectId(x) == Oid(x.v)

\* a string is truthy unless it is undefined or empty
Truthy(s) == s # Undefined /\ s # <<>>

\* String.prototype.toLowerCase, one character
LowerChar(c) ==
    CASE c = "A" -> "a"
      [] c = "B" -> "b"
      [] c = "T" -> "t"
      [] c = "R" -> "r"
      [] c = "U" -> "u"
      [] c = "E" -> "e"
      [] OTHER -> c

\* String.prototype.toLowerCase
ToLowerCase(s) == [i \in 1..Len(s) |-> LowerChar(s[i])]

IsSpace(c) == c = " "

\* String.prototype.trim
RECURSIVE Trim(_)
Trim(s) ==
    IF s = <<>> THEN s
    ELSE IF IsSpace(Head(s)) THEN Trim(Tail(s))
    ELSE IF IsSpace(s[Len(s)]) THEN Trim(SubSeq(s, 1, Len(s) - 1))
    ELSE s

\* String.prototype.split(','): the pieces between the commas, empty
\* pieces included; the last piece is what follows the last comma
RECURSIVE SplitFrom(_, _)
SplitFrom(s, cur) ==
    IF s = <<>> THEN <<cur>>
    ELSE IF Head(s) = "," THEN <<cur>> \o SplitFrom(Tail(s), <<>>)
    ELSE SplitFrom(Tail(s), Append(cur, Head(s)))

Split(s) == SplitFrom(s, <<>>)

\* the elements of a sequence
Range(s) == {s[i] : i \in 1..Len(s)}

(***************************************************************************)
(* Inputs of the requests.                                                 *)
(***************************************************************************)
La == <<"a">>
UA == <<"A">>
Lb == <<"b">>

\* the ids the store generates for the user documents
U1 == <<"u", "1">>
U2 == <<"u", "2">>

Alice == <<"a", "l", "i">>
Bob == <<"b", "o", "b">>

\* usernames and e-mail addresses of the registration requests
RegInputs ==
    { [username |-> Alice, email |-> La],
      [username |-> Bob, email |-> Lb],
      [username |-> Bob, email |-> UA],
      [username |-> La, email |-> Lb] }

\* the authorization header: absent, a token that fails verification
\* (forged or expired), or a token signed for a user id
NoToken == [kind |-> "none", sub |-> <<>>]
BadToken == [kind |-> "bad", sub |-> <<>>]
TokenOf(uid) == [kind |-> "valid", sub |-> uid]

\* the recipe id of a request path: a well-formed id is a positive number
Malformed == -1

\* no recipe id (a response that is about no recipe)
NoRecipe == 0

\* bodies of POST /recipes: valid says whether title, description and
\* instructions are present
PostBodies ==
    { [ingredients |-> <<UA, Lb>>, tags |-> UndefinedList, valid |-> TRUE],
      [ingredients |-> <<La>>, tags |-> <<UA>>, valid |-> TRUE],
      [ingredients |-> <<La>>, tags |-> UndefinedList, valid |-> FALSE] }

\* bodies of PUT /recipes/:id: any subset of the document's fields
NoBody ==
    [ingredients |-> UndefinedList, tags |-> UndefinedList,
     createdBy |-> NoId, createdAt |-> 0, updatedAt |-> 0]

PutBodies ==
    { NoBody,
      [NoBody EXCEPT !.ingredients = <<Lb>>],
      [NoBody EXCEPT !.tags = <<UA>>, !.createdBy = Str(U2)],
      [NoBody EXCEPT !.createdAt = 1, !.updatedAt = 1] }

(***************************************************************************)
(* State.                                                                  *)
(*   users    the user collection: a set of documents                      *)
(*   recipes  the recipe collection: recipe id -> document                 *)
(*   nextId   the next recipe id the store generates                       *)
(*   clock    Date.now(), advanced by every write                          *)
(*   res      the last request and its response; fields holds the paths of *)
(*            the user documents that the body of the response carries     *)
(*   pending  per client, the request whose handler is suspended at an     *)
(*            await between two accesses to the store                      *)
(***************************************************************************)
NoPagination ==
    [currentPage |-> 0, totalPages |-> 0, hasPreviousPage |-> FALSE,
     totalRecipes |-> 0, hasNextPage |-> FALSE]

NoFilter ==
    [ingredients |-> [op |-> "none", vals |-> <<>>],
     tags |-> [op |-> "none", vals |-> <<>>],
     createdBy |-> NoId]

\* no recipe document in the body of a response
NoDoc == [none |-> TRUE]

NoRes ==
    [op |-> "none", status |-> 0, user |-> NoId, id |-> NoRecipe,
     ingredientsRaw |-> Undefined, any |-> Undefined,
     tagsRaw |-> Undefined, tagsAny |-> Undefined,
     createdBy |-> Undefined, pageRaw |-> Undefined,
     filter |-> NoFilter, page |-> 0, skip |-> 0, limit |-> 0,
     items |-> <<>>, pagination |-> NoPagination, error |-> "none",
     token |-> "public", client |-> "none",
     username |-> Undefined, email |-> Undefined,
     target |-> NoId, message |-> "none", fields |-> {},
     upper |-> FALSE, doc |-> NoDoc]

\* the clients whose requests can be in flight at the same time
Clients == {"c1", "c2"}

NoRegBody == [username |-> Undefined, email |-> Undefined]

\* no handler of the client is suspended
NoPending == [op |-> "none", body |-> NoRegBody, req |-> NoRes]

Init ==
    /\ users = {}
    /\ recipes = <<>>
    /\ nextId = 1
    /\ clock = 1
    /\ res = NoRes
    /\ pending = [c \in Clients |-> NoPending]

\* the ids of the stored recipes
RecipeIds == DOMAIN recipes

\* the tokens a client can present: none, an unverifiable one, or one
\* issued to a registered user by /register or /login
Tokens == {NoToken, BadToken} \cup {TokenOf(u.id) : u \in users}

(***************************************************************************)
(* middleware/auth.ts                                                      *)
(***************************************************************************)
\* authenticateToken that lets a token through whose verification fails
AuthenticateTokenLenient(token) ==
    IF token.kind = "none" THEN [status |-> 401, user |-> NoId]
    ELSE [status |-> 0, user |-> Str(token.sub)]

\* authenticateToken: 401 without a token, 403 when verification fails,
\* otherwise the handler runs with req.user set to the token's subject
AuthenticateToken(token) ==
    IF token.kind = "none" THEN [status |-> 401, user |-> NoId]
    ELSE IF token.kind = "bad" THEN [status |-> 403, user |-> NoId]
    ELSE [status |-> 0, user |-> Str(token.sub)]

(***************************************************************************)
(* POST /register                                                          *)
(***************************************************************************)
\* the id the store generates for the next user document
NewUserId == IF users = {} THEN U1 ELSE U2

\* UserSchema: username is trimmed and at least 3 characters long, email is
\* trimmed and lowercased; mongoose applies the same setters to the values
\* of a query filter
UsernameSetter(s) == Trim(s)

\* EmailSetter without the case folding
EmailSetterCaseKept(s) == Trim(s)

EmailSetter(s) == ToLowerCase(Trim(s))

UsernameMinLength == 3

\* bcrypt.hash(password, salt) as bcrypt.compare sees it: the hash
\* determines the password
Hash(password) == <<"$">> \o password

\* the password of every registration request, and another one
Password == <<"p", "w">>
WrongPassword == <<"p", "x">>

\* what the password field of a stored document holds
PasswordHash == Hash(Password)

\* new User({ username, email, password: passwordHash, savedRecipes: [] })
NewUser(body) ==
    [id |-> NewUserId,
     username |-> UsernameSetter(body.username),
     email |-> EmailSetter(body.email),
     password |-> PasswordHash,
     savedRecipes |-> <<>>]

\* the whole handler with no other request in between
Register(body) ==
    LET base == [NoRes EXCEPT !.op = "register", !.username = body.username,
                              !.email = body.email]
    IN
    /\ IF \E u \in users : u.email = EmailSetter(body.email)
         THEN /\ res' = [base EXCEPT !.status = 400,
                             !.error = "Email already in use"]
              /\ UNCHANGED users
       ELSE IF \E u \in users : u.username = UsernameSetter(body.username)
         THEN /\ res' = [base EXCEPT !.status = 400,
                             !.error = "Username already taken"]
              /\ UNCHANGED users
       ELSE IF Len(UsernameSetter(body.username)) < UsernameMinLength
         THEN /\ res' = [base EXCEPT !.status = 500,
                             !.error = "validation failed"]
              /\ UNCHANGED users
       ELSE /\ users' = users \cup {NewUser(body)}
            /\ res' = [base EXCEPT !.status = 201,
                             !.user = Str(NewUserId)]
    /\ UNCHANGED <<recipes, nextId, clock, pending>>

(***************************************************************************)
(* POST /register, one step per access to the store: the handler awaits    *)
(* the e-mail lookup, the username lookup and the insert, and the handlers *)
(* of other requests run in between.                                       *)
(***************************************************************************)
\* a collection without the unique indexes
UniqueIndexAbsent(doc) == FALSE

\* the unique indexes of UserSchema (username, email) reject the insert of
\* a document whose username or e-mail a stored document already has
UniqueIndexViolated(doc) ==
    \E u \in users : u.username = doc.username \/ u.email = doc.email

RegisterBase(c, body) ==
    [NoRes EXCEPT !.op = "register", !.client = c,
                  !.username = body.username, !.email = body.email]

\* User.findOne({ email })
RegisterCheckEmail(c, body) ==
    /\ pending[c].op = "none"
    /\ IF \E u \in users : u.email = EmailSetter(body.email)
         THEN /\ res' = [RegisterBase(c, body) EXCEPT
                            !.status = 400, !.error = "Email already in use"]
              /\ UNCHANGED pending
         ELSE /\ pending' = [pending EXCEPT ![c] =
                               [NoPending EXCEPT !.op = "register username",
                                                 !.body = body]]
              /\ UNCHANGED res
    /\ UNCHANGED <<users, recipes, nextId, clock>>

\* User.findOne({ username })
RegisterCheckUsername(c) ==
    LET body == pending[c].body IN
    /\ pending[c].op = "register username"
    /\ IF \E u \in users : u.username = UsernameSetter(body.username)
         THEN /\ res' = [RegisterBase(c, body) EXCEPT
                            !.status = 400, !.error = "Username already taken"]
              /\ pending' = [pending EXCEPT ![c] = NoPending]
         ELSE /\ pending' = [pending EXCEPT ![c].op = "register insert"]
              /\ UNCHANGED res
    /\ UNCHANGED <<users, recipes, nextId, clock>>

\* newUser.save(): validation, then the insert; every error it throws is
\* answered by the catch block with 500 and the error's message
RegisterInsert(c) ==
    LET body == pending[c].body
        base == RegisterBase(c, body)
    IN
    /\ pending[c].op = "register insert"
    /\ IF Len(UsernameSetter(body.username)) < UsernameMinLength
         THEN /\ res' = [base EXCEPT !.status = 500,
                                     !.error = "validation failed"]
              /\ UNCHANGED users
       ELSE IF UniqueIndexViolated(NewUser(body))
         THEN /\ res' = [base EXCEPT !.status = 500,
                                     !.error = "E11000 duplicate key error"]
              /\ UNCHANGED users
       ELSE /\ users' = users \cup {NewUser(body)}
            /\ res' = [base EXCEPT !.status = 201, !.user = Str(NewUserId)]
    /\ pending' = [pending EXCEPT ![c] = NoPending]
    /\ UNCHANGED <<recipes, nextId, clock>>

(***************************************************************************)
(* The user schema and the projections of user documents.                  *)
(***************************************************************************)
\* the paths of UserSchema
UserSchemaPaths ==
    {"username", "email", "password", "savedRecipes", "dietaryPreferences",
     "createdAt"}

\* a projection that returns the whole document
SelectAllPaths(paths) == UserSchemaPaths \cup {"_id"}

\* select('a b c'): the named paths of the schema, and _id
Select(paths) == (paths \cap UserSchemaPaths) \cup {"_id"}

(***************************************************************************)
(* POST /recipes                                                           *)
(***************************************************************************)
\* a document built with the createdBy of the body when it has one
NewRecipeBodyCreator(body, createdBy) ==
    [ingredients |-> body.ingredients,
     tags |-> IF body.tags = UndefinedList THEN <<>> ELSE body.tags,
     createdBy |-> IF "createdBy" \in DOMAIN body
                     THEN CastObjectId(body.createdBy)
                     ELSE CastObjectId(createdBy),
     createdAt |-> clock,
     updatedAt |-> 0]

\* the document new Recipe({...}) builds: the schema casts createdBy to an
\* ObjectId, defaults tags to an empty array and createdAt to Date.now, and
\* applies no transformation to the elements of ingredients and tags; of
\* the body only title, ingredients, instructions, tags and description
\* are read
NewRecipe(body, createdBy) ==
    [ingredients |-> body.ingredients,
     tags |-> IF body.tags = UndefinedList THEN <<>> ELSE body.tags,
     createdBy |-> CastObjectId(createdBy),
     createdAt |-> clock,
     updatedAt |-> 0]

PostRecipes(token, body) ==
    LET auth == AuthenticateToken(token) IN
    /\ IF auth.status # 0
         THEN /\ res' = [NoRes EXCEPT !.op = "POST", !.status = auth.status,
                                      !.token = token.kind]
              /\ UNCHANGED <<recipes, nextId, clock>>
       ELSE IF ~body.valid
         THEN /\ res' = [NoRes EXCEPT !.op = "POST", !.status = 500,
                                      !.token = token.kind,
                                      !.user = auth.user,
                                      !.error = "validation failed"]
              /\ UNCHANGED <<recipes, nextId, clock>>
       ELSE /\ recipes' = [i \in RecipeIds \cup {nextId} |->
                             IF i = nextId THEN NewRecipe(body, auth.user)
                             ELSE recipes[i]]
            /\ nextId' = nextId + 1
            /\ clock' = clock + 1
            /\ res' = [NoRes EXCEPT !.op = "POST", !.status = 201,
                                    !.token = token.kind,
                                    !.createdBy =
                                        IF "createdBy" \in DOMAIN body
                                          THEN body.createdBy.v ELSE Undefined,
                                    !.user = auth.user, !.id = nextId]
    /\ UNCHANGED <<users, pending>>

(***************************************************************************)
(* GET /recipes: parsing of the query, the filter, the page                *)
(***************************************************************************)
\* ParseTokens without the case folding
ParseTokensCaseKept(raw) ==
    LET parts == Split(raw)
    IN  [i \in 1..Len(parts) |-> Trim(parts[i])]

\* raw.split(',').map(x => x.trim().toLowerCase())
ParseTokens(raw) ==
    LET parts == Split(raw)
    IN  [i \in 1..Len(parts) |-> ToLowerCase(Trim(parts[i]))]

\* IsTrueFlag without the case folding
IsTrueFlagCaseKept(flag) == flag = <<"t", "r", "u", "e">>

\* ((flag as string) || 'false').toLowerCase() === 'true'
IsTrueFlag(flag) ==
    ToLowerCase(IF Truthy(flag) THEN flag ELSE <<"f", "a", "l", "s", "e">>)
        = <<"t", "r", "u", "e">>

\* the constraint of one dimension: none unless the raw parameter is truthy
Constraint(raw, flag) ==
    IF Truthy(raw)
      THEN [op |-> IF IsTrueFlag(flag) THEN "$in" ELSE "$all",
            vals |-> ParseTokens(raw)]
      ELSE [op |-> "none", vals |-> <<>>]

\* the filter object of GET /recipes: createdBy is read from the query but
\* never added to the filter
BuildFilter(q) ==
    [ingredients |-> Constraint(q.ingredientsRaw, q.any),
     tags |-> Constraint(q.tagsRaw, q.tagsAny),
     createdBy |-> NoId]

\* the filter of GET /user/:username: { createdBy: user._id.toString() }
UserFilter(user) ==
    [ingredients |-> [op |-> "none", vals |-> <<>>],
     tags |-> [op |-> "none", vals |-> <<>>],
     createdBy |-> Str(user.id)]

\* MatchesArray with the two operators exchanged
MatchesArraySwapped(c, arr) ==
    CASE c.op = "none" -> TRUE
      [] c.op = "$in" ->
            /\ c.vals # <<>>
            /\ \A i \in 1..Len(c.vals) : \E j \in 1..Len(arr) : arr[j] = c.vals[i]
      [] c.op = "$all" ->
            \E i \in 1..Len(c.vals) : \E j \in 1..Len(arr) : arr[j] = c.vals[i]

\* the store's $all and $in on an array field
MatchesArray(c, arr) ==
    CASE c.op = "none" -> TRUE
      [] c.op = "$all" ->
            /\ c.vals # <<>>
            /\ \A i \in 1..Len(c.vals) : \E j \in 1..Len(arr) : arr[j] = c.vals[i]
      [] c.op = "$in" ->
            \E i \in 1..Len(c.vals) : \E j \in 1..Len(arr) : arr[j] = c.vals[i]

\* does a stored document match a filter: the filter's fields are conjoined
Matches(filter, r) ==
    /\ MatchesArray(filter.ingredients, r.ingredients)
    /\ MatchesArray(filter.tags, r.tags)
    /\ filter.createdBy # NoId => r.createdBy = CastObjectId(filter.createdBy)

\* the ids of the matching documents, in the order of insertion
MatchingIds(filter) ==
    SelectSeq([i \in 1..(nextId - 1) |-> i],
              LAMBDA i : i \in RecipeIds /\ Matches(filter, recipes[i]))

\* sort({ createdAt: -1 }), with documents of equal createdAt in the
\* reverse of the order of insertion
SortByCreatedAtDesc(s) ==
    SortSeq(s, LAMBDA x, y : recipes[x].createdAt >= recipes[y].createdAt)

\* the same sort with documents of equal createdAt in the order of
\* insertion
SortByCreatedAtDescStable(s) ==
    SortSeq(s, LAMBDA x, y : recipes[x].createdAt > recipes[y].createdAt)

\* Recipe.find(filter).sort({ createdAt: -1 }): the results the store may
\* return. The sort has no second key and the store does not specify the
\* order of documents of equal createdAt, which may differ from one query
\* to the next: they come in the order of insertion or in its reverse.
FindSorted(filter) ==
    { SortByCreatedAtDescStable(MatchingIds(filter)),
      SortByCreatedAtDesc(MatchingIds(filter)) }

\* skip(skip).limit(limit) of a sorted result
SkipLimit(s, skip, limit) ==
    SubSeq(s, skip + 1, IF skip + limit < Len(s) THEN skip + limit ELSE Len(s))

\* countDocuments(filter)
CountDocuments(filter) == Len(MatchingIds(filter))

DigitOf(c) ==
    CASE c = "0" -> 0 [] c = "1" -> 1 [] c = "2" -> 2 [] c = "3" -> 3
      [] c = "4" -> 4 [] c = "5" -> 5 [] c = "6" -> 6 [] c = "7" -> 7
      [] c = "8" -> 8 [] c = "9" -> 9 [] OTHER -> -1

RECURSIVE ParseDigits(_, _, _)
ParseDigits(s, acc, seen) ==
    IF s # <<>> /\ DigitOf(Head(s)) >= 0
      THEN ParseDigits(Tail(s), acc * 10 + DigitOf(Head(s)), TRUE)
      ELSE [nan |-> ~seen, val |-> acc]

RECURSIVE TrimStart(_)
TrimStart(s) == IF s # <<>> /\ IsSpace(Head(s)) THEN TrimStart(Tail(s)) ELSE s

\* parseInt: leading white space, an optional sign, the leading digits;
\* NaN when there is no digit (also for undefined)
ParseInt(s) ==
    LET t == TrimStart(s)
        signed == t # <<>> /\ Head(t) \in {"-", "+"}
        r == ParseDigits(IF signed THEN Tail(t) ELSE t, 0, FALSE)
    IN  [nan |-> r.nan,
         val |-> IF signed /\ Head(t) = "-" THEN 0 - r.val ELSE r.val]

\* parseInt(req.query.page as string) || 1: NaN and 0 are falsy
PageOf(raw) ==
    LET p == ParseInt(raw) IN IF p.nan \/ p.val = 0 THEN 1 ELSE p.val

\* const limit = 60
PageSize == 60

\* Ceil rounding down
CeilRoundedDown(n, d) == n \div d

\* Math.ceil(n / d) for n >= 0, d > 0
Ceil(n, d) == (n + d - 1) \div d

\* Pagination with a next page reported whenever skip + returned reaches
\* the count
PaginationNextInclusive(page, skip, limit, returned, totalCount) ==
    [currentPage |-> page,
     totalPages |-> Ceil(totalCount, limit),
     hasPreviousPage |-> page > 1,
     totalRecipes |-> totalCount,
     hasNextPage |-> skip + returned <= totalCount]

\* the pagination object of a list response
Pagination(page, skip, limit, returned, totalCount) ==
    [currentPage |-> page,
     totalPages |-> Ceil(totalCount, limit),
     hasPreviousPage |-> page > 1,
     totalRecipes |-> totalCount,
     hasNextPage |-> skip + returned < totalCount]

\* the find and the count of a list endpoint and its response; the store
\* rejects a negative skip, which the handler reports as 500
ListResponse(base, filter, pageRaw, sorted) ==
    LET page == PageOf(pageRaw)
        limit == PageSize
        skip == (page - 1) * limit
        found == SkipLimit(sorted, skip, limit)
        totalCount == CountDocuments(filter)
        req == [base EXCEPT !.pageRaw = pageRaw, !.filter = filter,
                            !.page = page, !.skip = skip, !.limit = limit]
    IN  IF skip < 0
          THEN [req EXCEPT !.status = 500, !.fields = {},
                           !.error = "skip must be non-negative"]
          ELSE [req EXCEPT !.status = 200, !.items = found,
                           !.pagination = Pagination(page, skip, limit,
                                                     Len(found), totalCount)]

\* populate('createdBy', 'username'): the creator in a listed recipe
PopulatedCreator == Select({"username"})

GetRecipes(q) ==
    /\ \E sorted \in FindSorted(BuildFilter(q)) :
          res' = ListResponse(
                    [NoRes EXCEPT !.op = "GET /recipes",
                                  !.ingredientsRaw = q.ingredientsRaw,
                                  !.any = q.any,
                                  !.tagsRaw = q.tagsRaw,
                                  !.tagsAny = q.tagsAny,
                                  !.createdBy = q.createdBy,
                                  !.fields = PopulatedCreator],
                    BuildFilter(q), q.pageRaw, sorted)
    /\ UNCHANGED <<users, recipes, nextId, clock, pending>>

(***************************************************************************)
(* GET /recipes, one step per access to the store: the handler awaits      *)
(* Recipe.find(filter) and then Recipe.countDocuments(filter), and the     *)
(* handlers of other requests run in between.                              *)
(***************************************************************************)
\* Recipe.find(filter).sort().skip().limit(); the page is kept by the
\* suspended handler
ListFind(c, q) ==
    LET filter == BuildFilter(q)
        page == PageOf(q.pageRaw)
        limit == PageSize
        skip == (page - 1) * limit
        req == [NoRes EXCEPT !.op = "GET /recipes", !.client = c,
                             !.fields = PopulatedCreator,
                             !.ingredientsRaw = q.ingredientsRaw,
                             !.any = q.any,
                             !.tagsRaw = q.tagsRaw,
                             !.tagsAny = q.tagsAny,
                             !.createdBy = q.createdBy,
                             !.pageRaw = q.pageRaw, !.filter = filter,
                             !.page = page, !.skip = skip, !.limit = limit]
    IN
    /\ pending[c].op = "none"
    /\ IF skip < 0
         THEN /\ res' = [req EXCEPT !.status = 500, !.fields = {},
                                    !.error = "skip must be non-negative"]
              /\ UNCHANGED pending
         ELSE /\ \E sorted \in FindSorted(filter) :
                    pending' = [pending EXCEPT ![c] =
                      [NoPending EXCEPT
                         !.op = "list count",
                         !.req = [req EXCEPT !.items =
                                    SkipLimit(sorted, skip, limit)]]]
              /\ UNCHANGED res
    /\ UNCHANGED <<users, recipes, nextId, clock>>

\* a count derived from the page that the find returned
TotalCountOfPage(req) == req.skip + Len(req.items)

\* Recipe.countDocuments(filter), read from the store as it is now
TotalCount(req) == CountDocuments(req.filter)

\* Recipe.countDocuments(filter) and the response
ListCount(c) ==
    LET req == pending[c].req IN
    /\ pending[c].op = "list count"
    /\ res' = [req EXCEPT !.status = 200,
                          !.pagination = Pagination(req.page, req.skip, req.limit,
                                                    Len(req.items), TotalCount(req))]
    /\ pending' = [pending EXCEPT ![c] = NoPending]
    /\ UNCHANGED <<users, recipes, nextId, clock>>

(***************************************************************************)
(* GET /user/:username                                                     *)
(***************************************************************************)
GetUser(username, pageRaw) ==
    /\ IF \E u \in users : u.username = UsernameSetter(username)
         THEN LET user == CHOOSE u \in users : u.username = UsernameSetter(username)
              IN  \E sorted \in FindSorted(UserFilter(user)) :
                    res' = ListResponse(
                            [NoRes EXCEPT !.op = "GET /user", !.user = Str(user.id),
                               !.fields = Select({"username", "savedRecipes",
                                                  "createdAt", "_id"})],
                            UserFilter(user), pageRaw, sorted)
         ELSE res' = [NoRes EXCEPT !.op = "GET /user", !.status = 404,
                                   !.pageRaw = pageRaw,
                                   !.error = "User not found"]
    /\ UNCHANGED <<users, recipes, nextId, clock, pending>>

(***************************************************************************)
(* PUT /recipes/:id                                                        *)
(***************************************************************************)
\* Recipe.findById that takes a malformed id for an absent one
FindByIdLenient(id) ==
    IF id \in RecipeIds THEN [status |-> 0, found |-> TRUE]
    ELSE [status |-> 404, found |-> FALSE]

\* Recipe.findById: a malformed id fails to cast and throws
FindById(id) ==
    IF id = Malformed THEN [status |-> 500, found |-> FALSE]
    ELSE IF id \in RecipeIds THEN [status |-> 0, found |-> TRUE]
    ELSE [status |-> 404, found |-> FALSE]

\* the ownership check of PUT: recipe.createdBy.toString() !== userId
PutOwnershipDenied(recipe, userId) ==
    ~StrictEquals(IdToString(recipe.createdBy), userId)

\* an update document in which the body's updatedAt wins over the time
UpdateDocumentBodyLast(body) ==
    IF body.updatedAt = 0 THEN [body EXCEPT !.updatedAt = clock] ELSE body

\* { ...updateData, updatedAt: new Date() }: the fields of the body, with
\* updatedAt replaced by the time of the update
UpdateDocument(body) == [body EXCEPT !.updatedAt = clock]

\* findByIdAndUpdate(id, { ...updateData, updatedAt: new Date() }): every
\* field of the update document that the schema knows is set, cast to its
\* schema type
ApplyUpdate(r, body) ==
    LET update == UpdateDocument(body) IN
    [ingredients |-> IF update.ingredients = UndefinedList THEN r.ingredients
                     ELSE update.ingredients,
     tags |-> IF update.tags = UndefinedList THEN r.tags ELSE update.tags,
     createdBy |-> IF update.createdBy = NoId THEN r.createdBy
                   ELSE CastObjectId(update.createdBy),
     createdAt |-> IF update.createdAt = 0 THEN r.createdAt
                   ELSE update.createdAt,
     updatedAt |-> update.updatedAt]

\* PUT /recipes/:id with the lookup of the recipe before the token check
PutRecipesLookupFirst(token, id, body) ==
    LET auth == AuthenticateToken(token)
        look == FindById(id)
        base == [NoRes EXCEPT !.op = "PUT", !.id = id, !.user = auth.user,
                              !.token = token.kind]
    IN
    /\ IF ~look.found
         THEN /\ res' = [base EXCEPT !.status = look.status]
              /\ UNCHANGED <<recipes, clock>>
       ELSE IF auth.status # 0
         THEN /\ res' = [base EXCEPT !.status = auth.status]
              /\ UNCHANGED <<recipes, clock>>
       ELSE IF PutOwnershipDenied(recipes[id], auth.user)
         THEN /\ res' = [base EXCEPT !.status = 403]
              /\ UNCHANGED <<recipes, clock>>
       ELSE /\ recipes' = [recipes EXCEPT ![id] = ApplyUpdate(@, body)]
            /\ clock' = clock + 1
            /\ res' = [base EXCEPT !.status = 200]
    /\ UNCHANGED <<users, nextId, pending>>

PutRecipes(token, id, body) ==
    LET auth == AuthenticateToken(token)
        look == FindById(id)
        base == [NoRes EXCEPT !.op = "PUT", !.id = id, !.user = auth.user,
                              !.token = token.kind]
    IN
    /\ IF auth.status # 0
         THEN /\ res' = [base EXCEPT !.status = auth.status]
              /\ UNCHANGED <<recipes, clock>>
       ELSE IF auth.user = NoId
         THEN /\ res' = [base EXCEPT !.status = 401]
              /\ UNCHANGED <<recipes, clock>>
       ELSE IF ~look.found
         THEN /\ res' = [base EXCEPT !.status = look.status]
              /\ UNCHANGED <<recipes, clock>>
       ELSE IF PutOwnershipDenied(recipes[id], auth.user)
         THEN /\ res' = [base EXCEPT !.status = 403,
                           !.error = "Forbidden: You can only update your own recipes"]
              /\ UNCHANGED <<recipes, clock>>
       ELSE /\ recipes' = [recipes EXCEPT ![id] = ApplyUpdate(@, body)]
            /\ clock' = clock + 1
            /\ res' = [base EXCEPT !.status = 200]
    /\ UNCHANGED <<users, nextId, pending>>

(***************************************************************************)
(* DELETE /recipes/:id                                                     *)
(***************************************************************************)
\* the ownership check of DELETE: recipe.createdBy !== userId
DeleteOwnershipDenied(recipe, userId) ==
    ~StrictEquals(recipe.createdBy, userId)

\* DELETE /recipes/:id with the removal before the ownership check
DeleteRecipesRemoveFirst(token, id) ==
    LET auth == AuthenticateToken(token)
        look == FindById(id)
        base == [NoRes EXCEPT !.op = "DELETE", !.id = id, !.user = auth.user,
                              !.token = token.kind]
    IN
    /\ IF auth.status # 0
         THEN /\ res' = [base EXCEPT !.status = auth.status]
              /\ UNCHANGED recipes
       ELSE IF ~look.found
         THEN /\ res' = [base EXCEPT !.status = look.status]
              /\ UNCHANGED recipes
       ELSE /\ recipes' = [i \in RecipeIds \ {id} |-> recipes[i]]
            /\ res' = [base EXCEPT !.status =
                          IF DeleteOwnershipDenied(recipes[id], auth.user)
                            THEN 403 ELSE 200]
    /\ UNCHANGED <<users, nextId, clock, pending>>

DeleteRecipes(token, id) ==
    LET auth == AuthenticateToken(token)
        look == FindById(id)
        base == [NoRes EXCEPT !.op = "DELETE", !.id = id, !.user = auth.user,
                              !.token = token.kind]
    IN
    /\ IF auth.status # 0
         THEN /\ res' = [base EXCEPT !.status = auth.status]
              /\ UNCHANGED recipes
       ELSE IF ~look.found
         THEN /\ res' = [base EXCEPT !.status = look.status]
              /\ UNCHANGED recipes
       ELSE IF DeleteOwnershipDenied(recipes[id], auth.user)
         THEN /\ res' = [base EXCEPT !.status = 403,
                           !.error = "Forbidden: You can only delete your own recipes"]
              /\ UNCHANGED recipes
       ELSE /\ recipes' = [i \in RecipeIds \ {id} |-> recipes[i]]
            /\ res' = [base EXCEPT !.status = 200]
    /\ UNCHANGED <<users, nextId, clock, pending>>

(***************************************************************************)
(* GET /recipes/:id                                                        *)
(***************************************************************************)
GetRecipeById(id) ==
    LET look == FindById(id)
        base == [NoRes EXCEPT !.op = "GET /recipes/:id", !.id = id]
    IN
    /\ IF look.found
         THEN res' = [base EXCEPT !.status = 200, !.items = <<id>>,
                                  !.doc = recipes[id]]
       ELSE IF look.status = 404
         THEN res' = [base EXCEPT !.status = 404, !.error = "Recipe not found"]
       ELSE res' = [base EXCEPT !.status = 500,
                                !.error = "Cast to ObjectId failed"]
    /\ UNCHANGED <<users, recipes, nextId, clock, pending>>

(***************************************************************************)
(* The user documents: reads, writes, lookups.                             *)
(***************************************************************************)
\* the value a loaded document has for a path: undefined when the stored
\* document has none
Get(doc, path) == IF path \in DOMAIN doc THEN doc[path] ELSE UndefinedList

\* what save() stores for a property assigned on a loaded document: a
\* property that is no path of the schema is not written
Persist(doc, path, value) ==
    IF path \in UserSchemaPaths THEN [doc EXCEPT ![path] = value] ELSE doc

\* User.findById(userId)
UserExists(userId) == \E u \in users : u.id = userId.v

UserById(userId) == CHOOSE u \in users : u.id = userId.v

(***************************************************************************)
(* POST /recipes/:id/save                                                  *)
(***************************************************************************)
\* a save() that changes savedRecipes increments the version (__v) of the
\* stored document: the documents that suspended requests have loaded of
\* that user are of an older version from then on; c is the set of
\* clients whose request ends with this save()
Outdate(userId, c) ==
    [d \in Clients |->
        IF d \in c THEN NoPending
        ELSE IF /\ pending[d].op = "save"
                /\ pending[d].req.doc.id = userId
          THEN [pending[d] EXCEPT !.op = "save outdated"]
        ELSE pending[d]]

\* the :id of the path: the recipe id it denotes and whether its
\* hexadecimal digits are written in upper case
SaveParam(id, upper) == [id |-> id, upper |-> upper]

\* ObjectId.toString(): the hexadecimal text in lower case
ToHexString(oid) == SaveParam(oid, FALSE)

\* user.savedRecipes.some(id => id.toString() === recipeId)
IsSaved(saved, param) ==
    \E k \in 1..Len(saved) : ToHexString(saved[k]) = param

\* user.savedRecipes.filter(id => id.toString() !== recipeId)
RemoveSaved(saved, param) ==
    SelectSeq(saved, LAMBDA x : ToHexString(x) # param)

SaveRecipe(token, param) ==
    LET auth == AuthenticateToken(token)
        base == [NoRes EXCEPT !.op = "save", !.token = token.kind,
                              !.user = auth.user, !.id = param.id,
                              !.upper = param.upper]
    IN
    /\ IF auth.status # 0
         THEN /\ res' = [base EXCEPT !.status = auth.status]
              /\ UNCHANGED users
       ELSE IF ~UserExists(auth.user)
         THEN /\ res' = [base EXCEPT !.status = 404, !.error = "User not found"]
              /\ UNCHANGED users
       ELSE LET user == UserById(auth.user)
                saved == user.savedRecipes
            IN  IF IsSaved(saved, param)
                  THEN /\ users' = (users \ {user}) \cup
                            {Persist(user, "savedRecipes",
                                     RemoveSaved(saved, param))}
                       /\ res' = [base EXCEPT !.status = 200,
                              !.message = "Recipe removed from saved recipes"]
                ELSE IF param.id = Malformed
                  THEN /\ res' = [base EXCEPT !.status = 500,
                                     !.error = "Cast to ObjectId failed"]
                       /\ UNCHANGED users
                ELSE /\ users' = (users \ {user}) \cup
                          {Persist(user, "savedRecipes",
                                   Append(saved, param.id))}
                     /\ res' = [base EXCEPT !.status = 200,
                                   !.message = "Recipe saved successfully"]
    /\ pending' = IF users' # users THEN Outdate(auth.user.v, {}) ELSE pending
    /\ UNCHANGED <<recipes, nextId, clock>>

(***************************************************************************)
(* POST /recipes/:id/save, one store access at a time: the handler is      *)
(* suspended between User.findById and user.save(), and requests of other  *)
(* clients run in between.                                                 *)
(***************************************************************************)
SaveBase(c, token, param) ==
    [NoRes EXCEPT !.op = "save", !.client = c, !.token = token.kind,
                  !.user = AuthenticateToken(token).user, !.id = param.id,
                  !.upper = param.upper]

\* authenticateToken, then User.findById(userId): the handler goes on with
\* the document as it was loaded
SaveRead(c, token, param) ==
    LET auth == AuthenticateToken(token)
        base == SaveBase(c, token, param)
    IN
    /\ pending[c].op = "none"
    /\ IF auth.status # 0
         THEN /\ res' = [base EXCEPT !.status = auth.status]
              /\ UNCHANGED pending
       ELSE IF ~UserExists(auth.user)
         THEN /\ res' = [base EXCEPT !.status = 404, !.error = "User not found"]
              /\ UNCHANGED pending
       ELSE /\ pending' = [pending EXCEPT ![c] =
                             [NoPending EXCEPT
                                !.op = "save",
                                !.req = [base EXCEPT
                                           !.doc = UserById(auth.user)]]]
            /\ UNCHANGED res
    /\ UNCHANGED <<users, recipes, nextId, clock>>

\* user.save() writing all of savedRecipes with $set: the update carries
\* the version the document was loaded with and matches no document when
\* another save has changed the array since (VersionError)
SaveSetArray(c, loaded, saved) ==
    LET req == pending[c].req
        stored == UserById(req.user)
    IN
    IF pending[c].op = "save outdated"
      THEN /\ res' = [req EXCEPT !.doc = NoDoc, !.status = 500,
                         !.error = "No matching document found"]
           /\ pending' = [pending EXCEPT ![c] = NoPending]
           /\ UNCHANGED users
      ELSE /\ users' = (users \ {stored}) \cup
                          {Persist(stored, "savedRecipes", saved)}
           /\ res' = [req EXCEPT !.doc = NoDoc, !.status = 200,
                         !.message = "Recipe removed from saved recipes"]
           /\ pending' = Outdate(loaded.id, {c})

\* user.save() after savedRecipes.push(recipeId): the update is a $push of
\* the new element onto the array as it is stored, with no condition on
\* the version
SavePush(c, loaded, id) ==
    LET req == pending[c].req
        stored == UserById(req.user)
    IN
    /\ users' = (users \ {stored}) \cup
                  {Persist(stored, "savedRecipes",
                           Append(stored.savedRecipes, id))}
    /\ res' = [req EXCEPT !.doc = NoDoc, !.status = 200,
                  !.message = "Recipe saved successfully"]
    /\ pending' = Outdate(loaded.id, {c})

\* the rest of the handler, on the document that SaveRead loaded
SaveWrite(c) ==
    LET req == pending[c].req
        loaded == req.doc
        param == SaveParam(req.id, req.upper)
    IN
    /\ pending[c].op \in {"save", "save outdated"}
    /\ IF IsSaved(loaded.savedRecipes, param)
         THEN SaveSetArray(c, loaded, RemoveSaved(loaded.savedRecipes, param))
       ELSE IF param.id = Malformed
         THEN /\ res' = [req EXCEPT !.doc = NoDoc, !.status = 500,
                            !.error = "Cast to ObjectId failed"]
              /\ pending' = [pending EXCEPT ![c] = NoPending]
              /\ UNCHANGED users
       ELSE SavePush(c, loaded, param.id)
    /\ UNCHANGED <<recipes, nextId, clock>>

(***************************************************************************)
(* POST /user/:userid/follow                                               *)
(***************************************************************************)
\* a well-formed user id that no document has, and a malformed one
U3 == <<"u", "3">>
MalformedUser == <<"?">>

Follow(token, targetUserId) ==
    LET auth == AuthenticateToken(token)
        base == [NoRes EXCEPT !.op = "follow", !.token = token.kind,
                              !.user = auth.user, !.target = Str(targetUserId)]
    IN
    /\ IF auth.status # 0
         THEN /\ res' = [base EXCEPT !.status = auth.status]
              /\ UNCHANGED users
       ELSE IF ~UserExists(auth.user)
         THEN /\ res' = [base EXCEPT !.status = 404, !.error = "User not found"]
              /\ UNCHANGED users
       ELSE IF targetUserId = MalformedUser
         THEN /\ res' = [base EXCEPT !.status = 500,
                                     !.error = "Cast to ObjectId failed"]
              /\ UNCHANGED users
       ELSE IF ~UserExists(Str(targetUserId))
         THEN /\ res' = [base EXCEPT !.status = 404,
                                     !.error = "Target user not found"]
              /\ UNCHANGED users
       ELSE LET user == UserById(auth.user)
                following == IF Get(user, "following") = UndefinedList THEN <<>>
                             ELSE Get(user, "following")
            IN  IF \E k \in 1..Len(following) : following[k] = targetUserId
                  THEN /\ users' = (users \ {user}) \cup
                            {Persist(user, "following",
                                SelectSeq(following,
                                          LAMBDA x : x # targetUserId))}
                       /\ res' = [base EXCEPT !.status = 200,
                                              !.message = "Unfollowed"]
                  ELSE /\ users' = (users \ {user}) \cup
                            {Persist(user, "following",
                                     Append(following, targetUserId))}
                       /\ res' = [base EXCEPT !.status = 200,
                                              !.message = "Followed"]
    /\ UNCHANGED <<recipes, nextId, clock, pending>>

(***************************************************************************)
(* POST /login, GET /me, GET /user/search                                  *)
(***************************************************************************)
Login(body) ==
    LET base == [NoRes EXCEPT !.op = "login", !.email = body.email] IN
    /\ IF ~\E u \in users : u.email = EmailSetter(body.email)
         THEN res' = [base EXCEPT !.status = 400,
                                  !.error = "Invalid email or password"]
       ELSE LET user == CHOOSE u \in users : u.email = EmailSetter(body.email)
            IN  IF Hash(body.password) # user.password
                  THEN res' = [base EXCEPT !.status = 400,
                                  !.error = "Invalid email or password"]
                  ELSE res' = [base EXCEPT !.status = 200,
                                  !.user = Str(user.id),
                                  !.username = user.username,
                                  !.message = "Login successful",
                                  !.fields = {"username"}]
    /\ UNCHANGED <<users, recipes, nextId, clock, pending>>

GetMe(token) ==
    LET auth == AuthenticateToken(token)
        base == [NoRes EXCEPT !.op = "me", !.token = token.kind,
                              !.user = auth.user]
    IN
    /\ IF auth.status # 0
         THEN res' = [base EXCEPT !.status = auth.status]
       ELSE IF ~UserExists(auth.user)
         THEN res' = [base EXCEPT !.status = 404, !.error = "User not found"]
       ELSE res' = [base EXCEPT
                      !.status = 200,
                      !.username = UserById(auth.user).username,
                      !.fields = Select({"username", "email", "createdAt",
                                         "savedRecipes"})]
    /\ UNCHANGED <<users, recipes, nextId, clock, pending>>

\* does the text s contain the text q
Contains(s, q) ==
    \E i \in 0..(Len(s) - Len(q)) : SubSeq(s, i + 1, i + Len(q)) = q

\* User.find({ username: { $regex: query.toLowerCase(), $options: 'i' } })
Search(q) ==
    LET base == [NoRes EXCEPT !.op = "search", !.username = q]
        hits == {u \in users :
                   Contains(ToLowerCase(u.username), ToLowerCase(q))}
    IN
    /\ IF q = Undefined \/ Trim(q) = <<>>
         THEN res' = [base EXCEPT !.status = 400,
                                  !.error = "Search query cannot be empty"]
       ELSE IF hits = {}
         THEN res' = [base EXCEPT !.status = 404, !.error = "No users found"]
       ELSE res' = [base EXCEPT !.status = 200,
                                !.fields = Select({"username", "createdAt"})]
    /\ UNCHANGED <<users, recipes, nextId, clock, pending>>

(***************************************************************************)
(* Specifications.                                                         *)
(***************************************************************************)
\* the recipe ids a request path can carry
IdParams == RecipeIds \cup {nextId, Malformed}

NoQuery ==
    [ingredientsRaw |-> Undefined, any |-> Undefined, tagsRaw |-> Undefined,
     tagsAny |-> Undefined, createdBy |-> Undefined, pageRaw |-> Undefined]

\* the queries of GET /recipes under Spec
Queries ==
    { NoQuery,
      [NoQuery EXCEPT !.createdBy = U1],
      [NoQuery EXCEPT !.createdBy = Alice, !.ingredientsRaw = La],
      [NoQuery EXCEPT !.ingredientsRaw = <<"a", ",", "b">>] }

DoRegister == \E body \in RegInputs : Register(body)

DoPostRecipes ==
    \E token \in Tokens, body \in PostBodies :
        /\ Cardinality(RecipeIds) < MaxRecipes
        /\ clock <= MaxClock
        /\ PostRecipes(token, body)

DoPutRecipes ==
    \E token \in Tokens, id \in IdParams, body \in PutBodies :
        /\ clock <= MaxClock
        /\ PutRecipes(token, id, body)

DoDeleteRecipes ==
    \E token \in Tokens, id \in IdParams : DeleteRecipes(token, id)

DoGetRecipes == \E q \in Queries : GetRecipes(q)

DoGetUser == \E username \in {Alice, Bob} : GetUser(username, Undefined)

Next ==
    \/ DoRegister
    \/ DoPostRecipes
    \/ DoPutRecipes
    \/ DoDeleteRecipes
    \/ DoGetRecipes
    \/ DoGetUser

Spec == Init /\ [][Next]_vars

(***************************************************************************)
(* SpecFilter: the store is filled by POST /recipes and queried by         *)
(* GET /recipes with every raw ingredients parameter up to MaxRawLen       *)
(* characters.                                                             *)
(***************************************************************************)
RawAlphabet == {"a", "A", "B", ",", " "}

RECURSIVE StringsUpTo(_)
StringsUpTo(n) ==
    IF n = 0 THEN {<<>>}
    ELSE LET shorter == StringsUpTo(n - 1)
         IN  shorter \cup {Append(x, c) : x \in shorter, c \in RawAlphabet}

RawStrings == StringsUpTo(MaxRawLen) \cup {Undefined}

TrueMixed == <<"T", "r", "U", "e">>
FalseLower == <<"f", "a", "l", "s", "e">>

FilterBodies ==
    { [ingredients |-> <<UA, Lb>>, tags |-> <<La>>, valid |-> TRUE],
      [ingredients |-> <<La, Lb>>, tags |-> <<La>>, valid |-> TRUE],
      [ingredients |-> <<<<>>, La>>, tags |-> <<La, Lb>>, valid |-> TRUE] }

\* the any flag, the raw tags parameter and the tagsAny flag of the queries
FilterModes ==
    { <<Undefined, Undefined, Undefined>>,
      <<TrueMixed, Undefined, TrueMixed>>,
      <<TrueMixed, UA, Undefined>>,
      <<FalseLower, <<"a", ",", "b">>, TrueMixed>> }

FilterQueries ==
    { [NoQuery EXCEPT !.ingredientsRaw = raw, !.any = m[1],
                      !.tagsRaw = m[2], !.tagsAny = m[3]] :
        raw \in RawStrings, m \in FilterModes }

FilterRegister == Register([username |-> Alice, email |-> La])

FilterPost ==
    \E body \in FilterBodies :
        /\ users # {}
        /\ Cardinality(RecipeIds) < MaxFilterRecipes
        /\ PostRecipes(TokenOf(U1), body)

\* one list request after each write: a list request leaves the store as
\* it is, so a second one in a row reaches nothing new
FilterGet ==
    /\ res.op # "GET /recipes"
    /\ \E q \in FilterQueries : GetRecipes(q)

NextFilter == FilterRegister \/ FilterPost \/ FilterGet

SpecFilter == Init /\ [][NextFilter]_vars

(***************************************************************************)
(* SpecPage: enough recipes for several pages, and the list endpoints      *)
(* with every kind of page parameter.                                      *)
(***************************************************************************)
PageRaws ==
    { Undefined, <<>>, <<"0">>, <<"1">>, <<"2">>, <<"3">>, <<"-", "1">>,
      <<"x">>, <<" ", "2", "x">> }

PageBody == [ingredients |-> <<La>>, tags |-> UndefinedList, valid |-> TRUE]

PageRegister ==
    \E body \in {[username |-> Alice, email |-> La],
                 [username |-> Bob, email |-> Lb]} :
        /\ body.username = Bob => users # {}
        /\ Register(body)

\* the second user creates recipes only while the store is small
PagePost ==
    \E u \in users :
        /\ Cardinality(RecipeIds) < MaxPageRecipes
        /\ u.id = U1 \/ Cardinality(RecipeIds) < 2
        /\ PostRecipes(TokenOf(u.id), PageBody)

PageGetRecipes ==
    \E raw \in PageRaws : GetRecipes([NoQuery EXCEPT !.pageRaw = raw])

PageGetUser ==
    \E username \in {Alice, Bob}, raw \in PageRaws : GetUser(username, raw)

NextPage == PageRegister \/ PagePost \/ PageGetRecipes \/ PageGetUser

SpecPage == Init /\ [][NextPage]_vars

(***************************************************************************)
(* SpecWalk: a store of more than one page, one update by its owner that   *)
(* sends a createdAt, and a client that asks for the first and the second  *)
(* page of GET /recipes.                                                   *)
(***************************************************************************)
WalkPost ==
    /\ users # {}
    /\ Cardinality(RecipeIds) < MaxPageRecipes
    /\ PostRecipes(TokenOf(U1), PageBody)

WalkPut ==
    \E id \in RecipeIds :
        /\ Cardinality(RecipeIds) > PageSize
        /\ \A i \in RecipeIds : recipes[i].updatedAt = 0
        /\ PutRecipes(TokenOf(U1), id,
                      [NoBody EXCEPT !.createdAt = 1, !.updatedAt = 1])

WalkGet ==
    \E raw \in {<<"1">>, <<"2">>} :
        GetRecipes([NoQuery EXCEPT !.pageRaw = raw])

NextWalk == PageRegister \/ WalkPost \/ WalkPut \/ WalkGet

SpecWalk == Init /\ [][NextWalk]_vars

(***************************************************************************)
(* SpecRegister: two clients register at the same time; the steps of their *)
(* handlers interleave.                                                    *)
(***************************************************************************)
RaceCheckEmail ==
    \E c \in Clients, body \in RegInputs : RegisterCheckEmail(c, body)

RaceCheckUsername == \E c \in Clients : RegisterCheckUsername(c)

RaceInsert == \E c \in Clients : RegisterInsert(c)

NextRegister == RaceCheckEmail \/ RaceCheckUsername \/ RaceInsert

SpecRegister == Init /\ [][NextRegister]_vars

(***************************************************************************)
(* SpecList: GET /recipes requests whose two reads are interleaved with    *)
(* the writes of other requests.                                           *)
(***************************************************************************)
ListQueries == {NoQuery, [NoQuery EXCEPT !.ingredientsRaw = La]}

ListRegister == Register([username |-> Alice, email |-> La])

ListPost ==
    /\ users # {}
    /\ Cardinality(RecipeIds) < MaxRecipes
    /\ clock <= MaxClock
    /\ PostRecipes(TokenOf(U1), PageBody)

ListPut ==
    \E id \in RecipeIds :
        /\ users # {}
        /\ clock <= MaxClock
        /\ PutRecipes(TokenOf(U1), id, [NoBody EXCEPT !.ingredients = <<Lb>>])

ListDelete ==
    \E id \in RecipeIds :
        /\ users # {}
        /\ DeleteRecipes(TokenOf(U1), id)

ListDoFind == \E c \in Clients, q \in ListQueries : ListFind(c, q)

ListDoCount == \E c \in Clients : ListCount(c)

NextList ==
    \/ ListRegister
    \/ ListPost
    \/ ListPut
    \/ ListDelete
    \/ ListDoFind
    \/ ListDoCount

SpecList == Init /\ [][NextList]_vars

(***************************************************************************)
(* SpecSocial: users save recipes and follow each other.                   *)
(***************************************************************************)
\* the :id of a save request: a stored recipe or the next id, in either
\* spelling, or a malformed id
SaveParams ==
    {SaveParam(i, b) : i \in RecipeIds \cup {nextId}, b \in BOOLEAN}
        \cup {SaveParam(Malformed, FALSE)}

\* the savedRecipes of the user a token is signed for
SavedOf(token) ==
    IF token.kind = "valid" /\ UserExists(Str(token.sub))
      THEN UserById(Str(token.sub)).savedRecipes
      ELSE <<>>

SocialPost ==
    /\ users # {}
    /\ Cardinality(RecipeIds) < MaxSocialRecipes
    /\ PostRecipes(TokenOf(U1), PageBody)

SocialSave ==
    \E token \in Tokens, param \in SaveParams :
        /\ Len(SavedOf(token)) < MaxSaved
        /\ SaveRecipe(token, param)

SocialFollow ==
    \E token \in Tokens, target \in {U1, U2, U3, MalformedUser} :
        Follow(token, target)

NextSocial == PageRegister \/ SocialPost \/ SocialSave \/ SocialFollow

SpecSocial == Init /\ [][NextSocial]_vars

(***************************************************************************)
(* SpecSave: save requests of two clients, interleaved between the read    *)
(* and the write; every id is spelled as the store prints it.              *)
(***************************************************************************)
SaveLowerParams == {SaveParam(1, FALSE), SaveParam(Malformed, FALSE)}

SaveStart ==
    \E c \in Clients, token \in Tokens, param \in SaveLowerParams :
        /\ Len(SavedOf(token)) < MaxSaved
        /\ SaveRead(c, token, param)

SaveFinish == \E c \in Clients : SaveWrite(c)

NextSave == PageRegister \/ SaveStart \/ SaveFinish

SpecSave == Init /\ [][NextSave]_vars

(***************************************************************************)
(* SpecApi: every endpoint, with every kind of token.                      *)
(***************************************************************************)
\* a body that names another user as the creator
BodyWithCreator ==
    [ingredients |-> <<La>>, tags |-> UndefinedList, valid |-> TRUE,
     createdBy |-> Str(U2)]

ApiPost ==
    \E token \in Tokens, body \in {PageBody, BodyWithCreator} :
        /\ Cardinality(RecipeIds) < MaxRecipes
        /\ clock <= MaxClock
        /\ PostRecipes(token, body)

ApiPut ==
    \E token \in Tokens, id \in IdParams :
        /\ clock <= MaxClock
        /\ PutRecipes(token, id, [NoBody EXCEPT !.tags = <<UA>>])

ApiDelete == \E token \in Tokens, id \in IdParams : DeleteRecipes(token, id)

ApiSave ==
    \E token \in {NoToken, BadToken, TokenOf(U1)}, id \in {1, Malformed} :
        /\ token.kind = "valid" => users # {}
        /\ SaveRecipe(token, SaveParam(id, FALSE))

ApiFollow == \E token \in Tokens, target \in {U2, U3} : Follow(token, target)

ApiLogin ==
    \E email \in {La, UA, Lb}, password \in {Password, WrongPassword} :
        Login([email |-> email, password |-> password])

ApiMe == \E token \in Tokens : GetMe(token)

ApiSearch == \E q \in {Undefined, <<" ">>, <<"A">>, <<"x">>} : Search(q)

ApiGetRecipes == GetRecipes(NoQuery)

ApiGetRecipe == \E id \in IdParams : GetRecipeById(id)

NextApi ==
    \/ PageRegister
    \/ ApiLogin
    \/ ApiMe
    \/ ApiPost
    \/ ApiPut
    \/ ApiDelete
    \/ ApiSave
    \/ ApiFollow
    \/ ApiSearch
    \/ ApiGetRecipes
    \/ DoGetUser
    \/ ApiGetRecipe

SpecApi == Init /\ [][NextApi]_vars

(***************************************************************************)
(* Properties.                                                             *)
(***************************************************************************)
IsList == res.op \in {"GET /recipes", "GET /user"}

\* one dimension of a filter, stated on sets: no tokens, or ALL and
\* Q \subseteq A, or ANY and Q \cap A # {}
DimensionHolds(c, A) ==
    \/ c.vals = <<>>
    \/ c.op = "$all" /\ Range(c.vals) \subseteq Range(A)
    \/ c.op = "$in" /\ Range(c.vals) \cap Range(A) # {}

\* C1: a stored recipe is returned by GET /recipes iff, for ingredients and
\* for tags independently, the token list is absent or empty, or the mode is
\* ALL and every token is in the stored list, or the mode is ANY and some
\* token is in the stored list; the two dimensions are conjoined.
C1_FilterSemantics ==
    (res.op = "GET /recipes" /\ res.status = 200) =>
        \A i \in RecipeIds :
            (i \in Range(res.items)) <=>
                /\ DimensionHolds(res.filter.ingredients, recipes[i].ingredients)
                /\ DimensionHolds(res.filter.tags, recipes[i].tags)

C1_Witness ==
    /\ res.op = "GET /recipes"
    /\ res.filter.ingredients.op = "$all"
    /\ Len(res.filter.ingredients.vals) = 2
    /\ res.filter.tags.op = "$in"
    /\ Cardinality(RecipeIds) = 2
    /\ Len(res.items) = 1

\* is the creator of a recipe the user that a createdBy parameter names
\* (by id or by username)
CreatorIs(r, c) ==
    \/ r.createdBy.v = c
    \/ \E u \in users : u.id = r.createdBy.v /\ u.username = c

\* C2: with a non-empty createdBy parameter, every recipe GET /recipes
\* returns was created by that creator.
C2_CreatedByFilters ==
    (res.op = "GET /recipes" /\ res.status = 200 /\ Truthy(res.createdBy)) =>
        \A i \in Range(res.items) : CreatorIs(recipes[i], res.createdBy)

\* C3: every element of every stored recipe's ingredients and tags is
\* lowercase.
C3_StoredLowercase ==
    \A i \in RecipeIds :
        /\ \A k \in 1..Len(recipes[i].ingredients) :
              \A n \in 1..Len(recipes[i].ingredients[k]) :
                  recipes[i].ingredients[k][n] \notin {"A", "B"}
        /\ \A k \in 1..Len(recipes[i].tags) :
              \A n \in 1..Len(recipes[i].tags[k]) :
                  recipes[i].tags[k][n] \notin {"A", "B"}

\* C4: PUT and DELETE on an existing recipe by an authenticated caller answer
\* 403 without applying the mutation when the caller is not the creator, and
\* succeed when the caller is the creator: a 403 on a recipe that is still
\* stored means that the caller is not its creator.
C4_OwnerSucceeds ==
    (/\ res.op \in {"PUT", "DELETE"}
     /\ res.status = 403
     /\ res.user # NoId
     /\ res.id \in RecipeIds) =>
        recipes[res.id].createdBy.v # res.user.v

\* C5: for every stored recipe and every registered caller, the ownership
\* check of DELETE allows the caller iff the ownership check of PUT does.
C5_SameOwnershipDecision ==
    \A i \in RecipeIds : \A u \in users :
        DeleteOwnershipDenied(recipes[i], Str(u.id))
            <=> PutOwnershipDenied(recipes[i], Str(u.id))

\* a raw parameter has a non-empty token: a character that is neither a
\* comma nor white space
HasToken(raw) ==
    raw # Undefined /\ \E n \in 1..Len(raw) : raw[n] \notin {",", " "}

CleanTokens(c) ==
    \A k \in 1..Len(c.vals) :
        /\ c.vals[k] # <<>>
        /\ \A n \in 1..Len(c.vals[k]) : c.vals[k][n] \notin {" ", "A", "B"}

\* C6: only non-empty, trimmed, lowercase tokens reach the filter, and a raw
\* value with no non-empty token yields no constraint on its dimension.
C6_NoEmptyToken ==
    res.op = "GET /recipes" =>
        /\ CleanTokens(res.filter.ingredients)
        /\ CleanTokens(res.filter.tags)
        /\ ~HasToken(res.ingredientsRaw) => res.filter.ingredients.op = "none"
        /\ ~HasToken(res.tagsRaw) => res.filter.tags.op = "none"

\* a flag that spells true in any letter case
SpellsTrue(flag) ==
    /\ flag # Undefined
    /\ Len(flag) = 4
    /\ flag[1] \in {"t", "T"}
    /\ flag[2] \in {"r", "R"}
    /\ flag[3] \in {"u", "U"}
    /\ flag[4] \in {"e", "E"}

\* C7: each mode of GET /recipes is ALL unless its flag spells true
\* (case-insensitively); a request that omits a flag, or gives a flag without
\* the token list, does not fail and the flag has no effect on the filter.
C7_DefaultModeAll ==
    res.op = "GET /recipes" =>
        /\ res.status = 200
        /\ res.filter.ingredients.op # "none" =>
              (res.filter.ingredients.op = "$in" <=> SpellsTrue(res.any))
        /\ res.filter.tags.op # "none" =>
              (res.filter.tags.op = "$in" <=> SpellsTrue(res.tagsAny))
        /\ ~Truthy(res.ingredientsRaw) =>
              res.filter.ingredients = NoFilter.ingredients
        /\ ~Truthy(res.tagsRaw) => res.filter.tags = NoFilter.tags

C7_Witness ==
    /\ res.op = "GET /recipes"
    /\ res.status = 200
    /\ res.any = TrueMixed
    /\ res.ingredientsRaw = Undefined
    /\ res.tagsAny = Undefined
    /\ res.filter.tags.op = "$all"
    /\ Len(res.items) = 2

\* two raw parameters that differ in the case of their letters only
SameUpToCase(x, y) ==
    /\ x # Undefined
    /\ y # Undefined
    /\ Len(x) = Len(y)
    /\ \A n \in 1..Len(x) :
          x[n] = y[n] \/ {x[n], y[n]} \in {{"a", "A"}, {"b", "B"}}

\* the pages the last GET /recipes may return for other raw parameters
ItemsFor(ingredientsRaw, tagsRaw) ==
    { SkipLimit(sorted, res.skip, res.limit) :
        sorted \in FindSorted(BuildFilter(
            [ingredientsRaw |-> ingredientsRaw, any |-> res.any,
             tagsRaw |-> tagsRaw, tagsAny |-> res.tagsAny,
             createdBy |-> res.createdBy, pageRaw |-> res.pageRaw])) }

\* C8: changing the letter case of the tokens of a GET /recipes query does
\* not change the recipes that are matched.
C8_CaseInsensitiveQuery ==
    (res.op = "GET /recipes" /\ res.status = 200) =>
        /\ \A v \in RawStrings :
              SameUpToCase(v, res.ingredientsRaw) =>
                  res.items \in ItemsFor(v, res.tagsRaw)
        /\ \A w \in {La, UA} :
              SameUpToCase(w, res.tagsRaw) =>
                  res.items \in ItemsFor(res.ingredientsRaw, w)

C8_Witness ==
    /\ res.op = "GET /recipes"
    /\ res.ingredientsRaw = <<"A", ",", "B">>
    /\ res.tagsRaw = UA
    /\ Len(res.items) = 1

\* the number of stored recipes that the last list request selects: all of
\* them for GET /recipes without parameters, the user's own for GET /user
SelectedCount ==
    IF res.op = "GET /user"
      THEN Cardinality({i \in RecipeIds : recipes[i].createdBy.v = res.user.v})
      ELSE Cardinality(RecipeIds)

\* the page number that a raw parameter of decimal digits denotes
PlainPage(raw) ==
    CASE raw = <<"1">> -> 1
      [] raw = <<"2">> -> 2
      [] raw = <<"3">> -> 3
      [] OTHER -> 0

\* C9: a list response for page p over N selected recipes uses
\* skip = (p - 1) * 60 and limit = 60 and reports currentPage = p,
\* totalPages = ceil(N / 60), hasPreviousPage = (p > 1), totalRecipes = N and
\* hasNextPage = (skip + number of returned items < N).
C9_PaginationEnvelope ==
    (IsList /\ res.status = 200) =>
        LET p == res.page
            N == SelectedCount
            rest == IF N - res.skip > 0 THEN N - res.skip ELSE 0
        IN  /\ PlainPage(res.pageRaw) # 0 => p = PlainPage(res.pageRaw)
            /\ res.skip = (p - 1) * 60
            /\ res.limit = 60
            /\ Len(res.items) = IF rest < 60 THEN rest ELSE 60
            /\ res.pagination.currentPage = p
            /\ res.pagination.totalPages * 60 >= N
            /\ (res.pagination.totalPages - 1) * 60 < N
            /\ res.pagination.totalPages >= 0
            /\ res.pagination.hasPreviousPage = (p > 1)
            /\ res.pagination.totalRecipes = N
            /\ res.pagination.hasNextPage = (res.skip + Len(res.items) < N)

C9_Witness ==
    /\ res.op = "GET /user"
    /\ res.status = 200
    /\ res.page = 2
    /\ res.pagination.totalPages = 2
    /\ res.pagination.hasPreviousPage
    /\ ~res.pagination.hasNextPage
    /\ Len(res.items) = 1
    /\ Cardinality(RecipeIds) = 62

\* a raw page parameter that is absent, not a number, or a number below 1
BelowOne(raw) ==
    raw \in {Undefined, <<>>, <<"x">>, <<"0">>, <<"-", "1">>}

\* C10: the page parameter is coerced to 1 whenever it is absent,
\* non-numeric or less than 1, so the skip is never negative and the request
\* is served as page 1.
C10_PageCoercedToOne ==
    (IsList /\ res.status # 404) =>
        /\ res.skip >= 0
        /\ BelowOne(res.pageRaw) =>
              /\ res.page = 1
              /\ res.status = 200
              /\ res.pagination.currentPage = 1

\* the ids of 287 matching recipes, newest first
Example287 == [i \in 1..287 |-> i]

\* the last list request asks for a page past the last one: page p >= 1
\* whose skip (p - 1) * 60 reaches the number of selected recipes
BeyondLastPage ==
    /\ IsList
    /\ res.page >= 1
    /\ (res.page - 1) * 60 >= SelectedCount

\* C11 as stated: a list request for a page past the last one raises no
\* error and returns an empty list with hasNextPage = false and
\* hasPreviousPage = true (page 1 of an empty selection is such a request).
C11_BeyondLastHasPrevious ==
    BeyondLastPage =>
        /\ res.status = 200
        /\ res.items = <<>>
        /\ ~res.pagination.hasNextPage
        /\ res.pagination.hasPreviousPage

\* C11 amended: a list request for a page past the last one raises no error
\* and returns an empty list with hasNextPage = false; hasPreviousPage is
\* true exactly when the page is above 1, so it is false for page 1 of an
\* empty selection.  For 287 matching recipes page 5 holds the remaining
\* 47 items (287 - 4 * 60) and has no next page, and page 6 is empty with a
\* previous and no next page.
C11_BeyondLastPageEmpty ==
    /\ BeyondLastPage =>
          /\ res.status = 200
          /\ res.items = <<>>
          /\ ~res.pagination.hasNextPage
          /\ res.pagination.hasPreviousPage = (res.page > 1)
          /\ res.pagination.totalRecipes = SelectedCount
    /\ Len(SkipLimit(Example287, 240, 60)) = 47
    /\ ~Pagination(5, 240, 60, 47, 287).hasNextPage
    /\ Pagination(5, 240, 60, 47, 287).totalPages = 5
    /\ SkipLimit(Example287, 300, 60) = <<>>
    /\ ~Pagination(6, 300, 60, 0, 287).hasNextPage
    /\ Pagination(6, 300, 60, 0, 287).hasPreviousPage

\* page 2 is requested while exactly one full page of recipes is stored
C11_Witness ==
    /\ res.op = "GET /recipes"
    /\ res.status = 200
    /\ res.page = 2
    /\ Cardinality(RecipeIds) = 60
    /\ res.pagination.totalPages = 1
    /\ res.items = <<>>
    /\ res.pagination.hasPreviousPage

\* a stored user has the e-mail address e up to surrounding blanks and the
\* case of its letters
EmailTaken(e) == \E u \in users : SameUpToCase(u.email, Trim(e))

\* a stored user has the username n up to surrounding blanks
UsernameTaken(n) == \E u \in users : u.username = Trim(n)

\* C13: a registration that is refused because a stored user already has
\* its e-mail address or username (also when the storage insert finds the
\* duplicate, after the lookups found none) is answered with status 400 and
\* one of the two messages of the lookups, not with 500.
C13_DuplicateAnsweredAs400 ==
    ( /\ res.op = "register"
      /\ res.status # 201
      /\ Len(Trim(res.username)) >= 3
      /\ EmailTaken(res.email) \/ UsernameTaken(res.username) )
    => /\ res.status = 400
       /\ res.error \in {"Email already in use", "Username already taken"}

\* C14: a registration whose e-mail address equals a stored user's address
\* after trimming and lowercasing never passes the e-mail lookup: it is
\* answered at once with status 400 and "Email already in use", and the
\* user collection stays as it is.
C14_DuplicateEmailRejected ==
    [][\A c \in Clients :
         /\ ( /\ pending[c].op = "none"
              /\ pending'[c].op = "register username" )
            => ~EmailTaken(pending'[c].body.email)
         /\ ( /\ pending[c].op = "none"
              /\ res' # res
              /\ res'.op = "register"
              /\ res'.client = c
              /\ EmailTaken(res'.email) )
            => /\ res'.status = 400
               /\ res'.error = "Email already in use"
               /\ users' = users]_vars

\* a registration with the address "A" is refused while "a" is stored
C14_Witness ==
    /\ res.op = "register"
    /\ res.client \in Clients
    /\ res.email = UA
    /\ res.status = 400
    /\ res.error = "Email already in use"
    /\ \E u \in users : u.email = La
    /\ Cardinality(users) = 1

\* C15: whatever the interleaving of the registrations, no two stored users
\* have the same username, and no two have the same e-mail address up to
\* the case of its letters.
C15_UsersUnique ==
    \A u1, u2 \in users :
        u1 # u2 => /\ u1.username # u2.username
                   /\ ~SameUpToCase(u1.email, u2.email)

\* both lookups of a registration found nothing, and its insert was
\* refused by the unique index because another registration came first
C15_Witness ==
    /\ res.op = "register"
    /\ res.status = 500
    /\ res.error = "E11000 duplicate key error"
    /\ EmailTaken(res.email) \/ UsernameTaken(res.username)
    /\ users # {}

\* the stored recipes that the filter of the last list request selects now
MatchingNow == {i \in RecipeIds : Matches(res.filter, recipes[i])}

\* C12: the response of a GET /recipes whose find and count are separate
\* reads is never an error; its totalRecipes is the number of recipes that
\* the same filter selects when the count is read, and its hasNextPage is
\* computed from the page found earlier, so a write in between makes the
\* two disagree.
C12_CountReadSeparately ==
    (res.op = "GET /recipes" /\ res.client \in Clients) =>
        /\ res.status = 200
        /\ res.pagination.totalRecipes = Cardinality(MatchingNow)
        /\ res.pagination.hasNextPage =
              (res.skip + Len(res.items) < Cardinality(MatchingNow))

\* a recipe was inserted between the find and the count: the page has one
\* item of at most 60, and yet a next page is announced
C12_Witness ==
    /\ res.op = "GET /recipes"
    /\ res.client \in Clients
    /\ res.status = 200
    /\ Len(res.items) = 1
    /\ res.pagination.totalRecipes = 2
    /\ res.pagination.hasNextPage
    /\ res.skip = 0

\* C16: a successful POST /recipes/:id/save changes the membership of the
\* recipe id in the caller's savedRecipes: absent becomes present and
\* present becomes absent (so that two of them in a row restore it).
C16_SaveToggles ==
    [][(res'.op = "save" /\ res'.status = 200) =>
         LET before == UserById(res'.user).savedRecipes
             after == (CHOOSE u \in users' : u.id = res'.user.v).savedRecipes
         IN  (res'.id \in Range(after)) = (res'.id \notin Range(before))]_vars

\* the following list that the store holds for a user
FollowingOf(user) ==
    IF Get(user, "following") = UndefinedList THEN <<>>
    ELSE Get(user, "following")

\* C17: after POST /user/:id/follow has answered "Followed", the target is
\* in the caller's stored following list, and after "Unfollowed" it is not.
C17_FollowPersisted ==
    (res.op = "follow" /\ res.status = 200) =>
        /\ res.message = "Followed" =>
              res.target.v \in Range(FollowingOf(UserById(res.user)))
        /\ res.message = "Unfollowed" =>
              res.target.v \notin Range(FollowingOf(UserById(res.user)))

\* C18: GET /recipes/:id answers 200 with the stored recipe of that id
\* when there is one, 404 "Recipe not found" when the id is well-formed and
\* no recipe has it, and 500 when the id is malformed; the body is never
\* another recipe.
C18_GetRecipeById ==
    res.op = "GET /recipes/:id" =>
        /\ res.id \in RecipeIds =>
              /\ res.status = 200
              /\ res.items = <<res.id>>
              /\ res.doc = recipes[res.id]
        /\ (res.id \notin RecipeIds /\ res.id # Malformed) =>
              /\ res.status = 404
              /\ res.error = "Recipe not found"
              /\ res.doc = NoDoc
        /\ res.id = Malformed =>
              /\ res.status = 500
              /\ res.doc = NoDoc

\* the second of two different recipes is requested and returned
C18_Witness ==
    /\ res.op = "GET /recipes/:id"
    /\ res.status = 200
    /\ res.id = 2
    /\ res.doc = recipes[2]
    /\ recipes[1] # recipes[2]

\* the endpoints behind authenticateToken
Protected == {"POST", "PUT", "DELETE", "save", "follow", "me"}

C20_NoSensitiveFields ==
    res.fields \cap {"email", "password"} = {}

\* the endpoints that take no token and return user documents
PublicUserEndpoints == {"GET /user", "search", "GET /recipes"}

Surviving == RecipeIds \cap DOMAIN recipes'

\* C22: no step changes the createdAt of a stored recipe.
C22_CreatedAtImmutable ==
    [][\A i \in Surviving : recipes'[i].createdAt = recipes[i].createdAt]_vars

C25_CreatorNeverChanges ==
    [][\A i \in Surviving : recipes'[i].createdBy = recipes[i].createdBy]_vars

\* C27: a PUT or DELETE that is answered 401, 403, 404 or 500 leaves the
\* recipes, the users and the id counter as they are.
C27_FailedWriteChangesNothing ==
    [][(res'.op \in {"PUT", "DELETE"} /\ res'.status \in {401, 403, 404, 500}) =>
         /\ recipes' = recipes
         /\ users' = users
         /\ nextId' = nextId]_vars

\* a PUT of a stored recipe by a user who is not its creator
C27_Witness ==
    /\ res.op = "PUT"
    /\ res.status = 403
    /\ res.token = "valid"
    /\ res.id \in RecipeIds
    /\ recipes[res.id].createdBy.v # res.user.v

\* C30: PUT and DELETE answer 401 without a token and 403 with a token
\* that fails verification whether or not the recipe exists, and 404 to
\* every verified caller when the id is well-formed and no recipe has it.
C30_CheckOrder ==
    [][res'.op \in {"PUT", "DELETE"} =>
         /\ res'.token = "none" => res'.status = 401
         /\ res'.token = "bad" => res'.status = 403
         /\ ( /\ res'.token = "valid"
              /\ res'.id \notin RecipeIds
              /\ res'.id # Malformed ) => res'.status = 404]_vars

\* a verified caller asks for the removal of a recipe that does not exist
\* while another one does
C30_Witness ==
    /\ res.op = "DELETE"
    /\ res.token = "valid"
    /\ res.status = 404
    /\ res.id \notin RecipeIds
    /\ RecipeIds # {}

\* C26: the recipe that a successful POST /recipes stores has the caller of
\* the verified token as its createdBy, also when the body names a creator.
C26_CreatorIsCaller ==
    (res.op = "POST" /\ res.status = 201) =>
        /\ res.token = "valid"
        /\ res.id \in RecipeIds
        /\ \E u \in users : res.user = Str(u.id)
        /\ recipes[res.id].createdBy = Oid(res.user.v)

\* the first user creates a recipe with a body that names the second
C26_Witness ==
    /\ res.op = "POST"
    /\ res.status = 201
    /\ res.createdBy = U2
    /\ res.user = Str(U1)
    /\ recipes[res.id].createdBy = Oid(U1)

\* the users whose savedRecipes holds a recipe id
SavedBy(id) ==
    {u \in users : \E k \in 1..Len(u.savedRecipes) : u.savedRecipes[k] = id}

C28_NoDuplicateSaved ==
    \A u \in users :
        \A j, k \in 1..Len(u.savedRecipes) :
            j # k => u.savedRecipes[j] # u.savedRecipes[k]

\* the items of the last response followed by those of the next one
BothPages == res.items \o res'.items

\* C29: when the answer to page 1 of GET /recipes reports two pages and
\* the next request, with no write in between, is page 2 with the same
\* filter, the two pages hold every matching recipe exactly once: they
\* are disjoint, together they are the matching set, page 1 has 60 items,
\* createdAt never increases along them, and hasNextPage is true on page 1
\* and false on page 2.
C29_PagesPartition ==
    [][( /\ res.op = "GET /recipes" /\ res.status = 200 /\ res.page = 1
         /\ res.pagination.totalPages = 2
         /\ res'.op = "GET /recipes" /\ res'.status = 200 /\ res'.page = 2
         /\ res'.filter = res.filter
         /\ recipes' = recipes ) =>
            /\ Range(res.items) \cap Range(res'.items) = {}
            /\ Range(BothPages) = Range(MatchingIds(res.filter))
            /\ Len(res.items) = PageSize
            /\ \A k \in 1..(Len(BothPages) - 1) :
                  recipes[BothPages[k]].createdAt
                      >= recipes[BothPages[k + 1]].createdAt
            /\ res.pagination.hasNextPage
            /\ ~res'.pagination.hasNextPage]_vars

====
